---- MODULE Spec2Model ----
(***************************************************************************)
(* Model of exachem/fci/fci.hpp: fci_driver and generate_fcidump, run by a *)
(* process group of nprocs ranks, over a sequence of runs that share one   *)
(* disk.  Each rank walks the statements of fci_driver in program order;   *)
(* pc[p] names the statement rank p executes next.  Tensor contents are    *)
(* abstract terms: <<kind, input>> for data produced from an input, and    *)
(* nested terms for the results of contractions.  Each rank also keeps the *)
(* trace of its tensor operations (allocate, read, write, free).  A second *)
(* specification, NumSpec, follows the numeric content of the contractions *)
(* and of the symmetry-label vector on small index spaces.                 *)
(***************************************************************************)
EXTENDS Integers, Sequences, FiniteSets, TLC

\* Largest process-group size explored (ProcGroup::create_world_coll).
MaxProcs == 2
\* Number of consecutive runs of fci_driver over the same disk.
MaxRuns == 2
\* Number of molecular orbitals (the extent of MO("all") / MSO).
NOrb == 2
\* Number of atomic-orbital basis functions (the extent of AO).
NAO == 2
\* Number of Cholesky vectors (the extent of CI).
NAux == 2
\* Largest magnitude of a tensor entry.
MaxVal == 1
\* Largest sys_data.nbf_orig.
MaxNbf == 3

VARIABLES
  nprocs,        \* size of the process group
  run,           \* index of the current run, 1..MaxRuns
  input,         \* identity of the current run's input (filename, options_map)
  readt,         \* ccsd_options.readt  (restart flag)
  writet,        \* ccsd_options.writet (write-checkpoint flag)
  prev,          \* summary of the previous run
  disk,          \* files and directories
  pc,            \* pc[p]: next statement of rank p
  ccsd_restart,  \* ccsd_restart[p]: the local bool of line 93
  seen,          \* seen[p]: <<exists(f1file), exists(v2file)>> as rank p saw them at line 93
  cd_arg,        \* cd_arg[p]: the is_restart argument rank p gave cd_svd_driver
  tensors,       \* tensors[p]: contents of the tensors as rank p holds them
  chol_count,    \* chol_count[p]: the count returned by cd_svd_driver
  out,           \* out[p]: state of the std::ofstream of line 116
  dirSeen,       \* dirSeen[p]: the value of fs::exists(files_dir) rank p is testing
  calls,         \* calls[p]: the collective operations rank p invoked, in order
  io,            \* file accesses of the current run: <<rank, file, operation>>
  exported,      \* exported[p]: the tensors rank p handed to write_fcidump_file
  trace,         \* trace[p]: the tensor operations of rank p, <<statement, operation, tensor>>
  live,          \* live[p]: the tensors rank p holds allocated
  misuse,        \* misuse[p]: operations of rank p on a tensor that was not allocated
  created,       \* created[p]: the result of the create_directories call rank p just made
  num            \* the numeric contents of one rank's tensors and of symvec

vars == <<nprocs, run, input, readt, writet, prev, disk, pc, ccsd_restart, seen,
          cd_arg, tensors, chol_count, out, dirSeen, calls, io, exported,
          trace, live, misuse, created, num>>

Procs == 0 .. (nprocs - 1)

-----------------------------------------------------------------------------
\* Data terms

NoData   == <<"none", 0>>     \* a tensor that is not allocated / a file that is absent
Unset    == <<"unset", 0>>    \* allocated, never filled
NoExport == <<NoData, NoData>>

\* A file: its data, the run that wrote it (0: it predates the first run), and,
\* for the text file, its number of lines.
Absent == [data |-> NoData, by |-> 0, lines |-> 0]
Stale  == [data |-> <<"stale", 0>>, by |-> 0, lines |-> 0]
StaleCount == [data |-> <<"stale", 0>>, by |-> 0, lines |-> 1]

\* fs::exists(file)
Exists(f) == disk[f].data # NoData

CheckpointFiles == {"f1file", "v2file", "cholfile"}

\* The statements, in program order (generate_fcidump inlined at its call site).
PcOrder ==
  << "hf", "decide", "cdsvd",
     "rd_f1", "rd_v2", "bar_r",
     "mk_chk", "mk_do", "wr_f1", "wr_v2", "open", "count",
     "bar", "alloc_v2", "exec_v2", "free_chol",
     "alloc_h", "mkf_chk", "mkf_do", "rd_hcore", "sch", "export", "free_hmo",
     "free3", "flush", "done" >>

Labels == {PcOrder[i] : i \in 1 .. Len(PcOrder)}

\* A rank that failed in a statement stays there: ErrorAt(l) is its pc.
ErrorAt(l) ==
  IF l = "rd_f1" THEN "err_f1"
  ELSE IF l = "rd_v2" THEN "err_v2"
  ELSE IF l = "mk_do" THEN "err_mk"
  ELSE IF l = "mkf_do" THEN "err_mkf"
  ELSE "err_hcore"
ErrorLabels == {"err_f1", "err_v2", "err_hcore", "err_mk", "err_mkf"}
FailedIn(e) ==
  IF e = "err_f1" THEN "rd_f1"
  ELSE IF e = "err_v2" THEN "rd_v2"
  ELSE IF e = "err_mk" THEN "mk_do"
  ELSE IF e = "err_mkf" THEN "mkf_do"
  ELSE "rd_hcore"

PosMap == [l \in Labels |-> CHOOSE i \in 1 .. Len(PcOrder) : PcOrder[i] = l]

\* The place of a statement in program order; a failed rank has come as far
\* as the statement it failed in.
Pos(l) == IF l \in ErrorLabels THEN PosMap[FailedIn(l)] ELSE PosMap[l]

Failed(p)     == pc[p] \in ErrorLabels
Terminated(p) == pc[p] = "done" \/ Failed(p)
AllTerminated == \A p \in Procs : Terminated(p)

-----------------------------------------------------------------------------
\* The decisions of fci_driver

\* Line 93 with && mistaken for ||.
CcsdRestartAnyFile(rt, f1, v2) == rt \/ f1 \/ v2

\* Line 93 without the restart flag.
CcsdRestartFilesOnly(rt, f1, v2) == f1 /\ v2

\* bool ccsd_restart = ccsd_options.readt || (fs::exists(f1file) && fs::exists(v2file));
CcsdRestart(rt, f1, v2) == rt \/ (f1 /\ v2)

\* Lines 102/108 with a plain else instead of else if(writet).
BranchTargetAlwaysWrite(restart, wt) ==
  IF restart THEN "rd_f1" ELSE "mk_chk"

\* if(ccsd_restart) {...} else if(ccsd_options.writet) {...}: the statement
\* that follows cd_svd_driver.
BranchTarget(restart, wt) ==
  IF restart THEN "rd_f1" ELSE IF wt THEN "mk_chk" ELSE "bar"

\* Line 108 with if(writet) instead of else if(writet).
AfterRestoreThenWrite(wt) == IF wt THEN "mk_chk" ELSE "bar"

\* The statement that follows the restore branch: the else of line 108 skips
\* the persist branch whatever the write flag says.
AfterRestore(wt) == "bar"

\* Line 115 without the rank test.
EveryRankWrites(rank) == TRUE

\* if(rank == 0) { std::ofstream out(cholfile ...
IsCountWriter(rank) == rank = 0

\* Lines 115-123 with the barrier moved inside the rank == 0 block.
AfterWritesBarrierInside(rank) == IF IsCountWriter(rank) THEN "open" ELSE "alloc_v2"

\* The statement that follows write_to_disk(cholVpr, v2file).
AfterWrites(rank) == IF IsCountWriter(rank) THEN "open" ELSE "bar"

\* Lines 103-104 with the two file names exchanged.
ReadSourceSwapped(t) == IF t = "d_f1" THEN "v2file" ELSE "f1file"

\* read_from_disk(d_f1, f1file); read_from_disk(cholVpr, v2file);
ReadSource(t) == IF t = "d_f1" THEN "f1file" ELSE "v2file"

\* write_to_disk(d_f1, f1file); write_to_disk(cholVpr, v2file);
WriteTarget(t) == IF t = "d_f1" THEN "f1file" ELSE "v2file"

-----------------------------------------------------------------------------
\* The collaborators

\* A barrier that lets a rank through at once.
NoWait(l) == TRUE

\* Variant: a barrier that opens as soon as one rank has arrived.
FirstArrivalReleases(l) == \E q \in Procs : Pos(pc[q]) >= Pos(l)

\* ec.pg().barrier(): a rank leaves the barrier once every rank has reached it.
BarrierPass(l) == \A q \in Procs : Pos(pc[q]) >= Pos(l)

\* A collective operation (allocate, deallocate, execute, flush_and_sync, the
\* upstream drivers) completes on a rank once every rank has entered it.
CollectiveReady(l) == \A q \in Procs : Pos(pc[q]) >= Pos(l)

\* Variant: a creation that reports an error when the directory is there
\* already, as mkdir does.
CreateStrict(exists) == IF exists THEN "error" ELSE "created"

\* fs::create_directories(dir): creates the directory and its missing parents;
\* a directory that exists already is left as it is and is no error.
CreateDirectories(exists) == IF exists THEN "existed" ELSE "created"

\* cd_svd_driver: computes the factorized vectors and the one-electron operator
\* from the input, or, on restart, returns them allocated and not filled.
CdSvdResult(restart, inp) ==
  [ cholVpr    |-> IF restart THEN Unset ELSE <<"chol", inp>>,
    d_f1       |-> IF restart THEN Unset ELSE <<"f1", inp>>,
    lcao       |-> <<"lcao", inp>>,
    chol_count |-> IF restart THEN Unset ELSE <<"count", inp>> ]

\* write_to_disk(tensor, file): the file now holds the tensor's data.
WriteToDisk(data, r) == [data |-> data, by |-> r, lines |-> 0]

\* read_from_disk(tensor, file): the tensor now holds the file's data.
ReadFromDisk(file) == file.data

\* full_v2(p, r, q, s) = cholVpr(p, r, cindex) * cholVpr(q, s, cindex)
Reconstruct(chol) == <<"v2", chol>>

\* tmp(z1,nu) = lcao(mu,z1) * hcore(mu,nu)
RotateLeft(lcao, hcore) == <<"tmp", lcao, hcore>>

\* hcore_mo(z1,z2) = tmp(z1,nu) * lcao(nu,z2)
RotateRight(tmp, lcao) == <<"hmo", tmp, lcao>>

\* The tensors a run with no checkpoint I/O hands to write_fcidump_file.
EphemeralExport(inp, hcoreData) ==
  LET r == CdSvdResult(FALSE, inp)
  IN  << RotateRight(RotateLeft(r.lcao, hcoreData), r.lcao), Reconstruct(r.cholVpr) >>

-----------------------------------------------------------------------------
\* State after construction

NoTensors ==
  [ cholVpr |-> NoData, d_f1 |-> NoData, lcao |-> NoData, full_v2 |-> NoData,
    hcore |-> NoData, hcore_mo |-> NoData, tmp |-> NoData ]

\* An allocated tensor whose entries have not been computed.
Unfilled == << >>

\* The numeric state while no numeric computation is followed.
NumIdle ==
  [ stmt |-> "idle", cholVpr |-> Unfilled, full_v2 |-> Unfilled, lcao |-> Unfilled,
    hcore |-> Unfilled, tmp |-> Unfilled, hcore_mo |-> Unfilled,
    nbf_orig |-> 0, is_unrestricted |-> FALSE, symvec |-> << >> ]

NoPrev == [branch |-> "none", writet |-> FALSE, input |-> 0, outcome |-> "none"]

\* The ranks' state when fci_driver is entered.
FreshPc         == [p \in Procs |-> "hf"]
FreshRestart    == [p \in Procs |-> FALSE]
FreshSeen       == [p \in Procs |-> <<FALSE, FALSE>>]
FreshTensors    == [p \in Procs |-> NoTensors]
FreshCount      == [p \in Procs |-> NoData]
FreshOut        == [p \in Procs |-> "closed"]
FreshCalls      == [p \in Procs |-> <<>>]
FreshExported   == [p \in Procs |-> NoExport]
FreshTrace      == [p \in Procs |-> <<>>]
FreshLive       == [p \in Procs |-> {}]
FreshCreated    == [p \in Procs |-> "none"]

Init ==
  /\ nprocs \in 1 .. MaxProcs
  /\ run = 1
  /\ input = 1
  /\ readt \in BOOLEAN
  /\ writet \in BOOLEAN
  /\ prev = NoPrev
  /\ \E f1 \in {Absent, Stale}, v2 \in {Absent, Stale}, cf \in {Absent, StaleCount} :
       disk = [ f1file    |-> f1,
                v2file    |-> v2,
                cholfile  |-> cf,
                hcorefile |-> [data |-> <<"hcore", 0>>, by |-> 0, lines |-> 0],
                files_dir |-> (f1 # Absent \/ v2 # Absent \/ cf # Absent),
                fci_dir   |-> FALSE ]
  /\ pc = FreshPc
  /\ ccsd_restart = FreshRestart
  /\ seen = FreshSeen
  /\ cd_arg = FreshRestart
  /\ tensors = FreshTensors
  /\ chol_count = FreshCount
  /\ out = FreshOut
  /\ dirSeen = FreshRestart
  /\ calls = FreshCalls
  /\ exported = FreshExported
  /\ io = {}
  /\ trace = FreshTrace
  /\ live = FreshLive
  /\ misuse = FreshLive
  /\ created = FreshCreated
  /\ num = NumIdle

-----------------------------------------------------------------------------
\* The statements of fci_driver, one action each, executed by rank p

runVars == <<nprocs, run, input, readt, writet, prev>>

Goto(p, l)    == pc' = [pc EXCEPT ![p] = l]
Call(p, name) == calls' = [calls EXCEPT ![p] = Append(@, name)]
Log(p, f, op) == io' = io \cup {<<p, f, op>>}

-----------------------------------------------------------------------------
\* The tensor operations of each statement, in the order the statement performs
\* them: <<operation, tensor>> with operation "alloc", "read", "write" or "free".

TensorNames == {"cholVpr", "d_f1", "lcao", "full_v2", "hcore", "hcore_mo", "tmp"}

\* Variant: the deallocation is queued between the two contractions.
SchedulerOpsFreeBetween ==
  << <<"alloc", "tmp">>,
     <<"read", "lcao">>, <<"read", "hcore">>, <<"write", "tmp">>,
     <<"free", "tmp">>, <<"free", "hcore">>,
     <<"read", "tmp">>, <<"read", "lcao">>, <<"write", "hcore_mo">> >>

\* sch.allocate(tmp)(tmp = lcao * hcore)(hcore_mo = tmp * lcao)
\*    .deallocate(tmp, hcore).execute();
SchedulerOps ==
  << <<"alloc", "tmp">>,
     <<"read", "lcao">>, <<"read", "hcore">>, <<"write", "tmp">>,
     <<"read", "tmp">>, <<"read", "lcao">>, <<"write", "hcore_mo">>,
     <<"free", "tmp">>, <<"free", "hcore">> >>

\* Variant: full_v2 is freed together with cholVpr.
FreedAfterReconstructWithV2 == << <<"free", "cholVpr">>, <<"free", "full_v2">> >>

\* free_tensors(cholVpr);
FreedAfterReconstruct == << <<"free", "cholVpr">> >>

\* Variant: the final free_tensors call leaves full_v2 out.
FreedAtEndWithoutV2 == << <<"free", "lcao">>, <<"free", "d_f1">> >>

\* free_tensors(lcao, d_f1, full_v2);
FreedAtEnd == << <<"free", "lcao">>, <<"free", "d_f1">>, <<"free", "full_v2">> >>

\* cd_svd_driver returns cholVpr, d_f1 and lcao allocated.
HandedOverAllocated ==
  << <<"alloc", "cholVpr">>, <<"alloc", "d_f1">>, <<"alloc", "lcao">> >>

StmtOps(l) ==
  CASE l = "cdsvd"     -> HandedOverAllocated
    [] l = "rd_f1"     -> << <<"write", "d_f1">> >>
    [] l = "rd_v2"     -> << <<"write", "cholVpr">> >>
    [] l = "wr_f1"     -> << <<"read", "d_f1">> >>
    [] l = "wr_v2"     -> << <<"read", "cholVpr">> >>
    [] l = "alloc_v2"  -> << <<"alloc", "full_v2">> >>
    [] l = "exec_v2"   -> << <<"read", "cholVpr">>, <<"read", "cholVpr">>,
                             <<"write", "full_v2">> >>
    [] l = "free_chol" -> FreedAfterReconstruct
    [] l = "alloc_h"   -> << <<"alloc", "hcore">>, <<"alloc", "hcore_mo">> >>
    [] l = "rd_hcore"  -> << <<"write", "hcore">> >>
    [] l = "sch"       -> SchedulerOps
    [] l = "export"    -> << <<"read", "hcore_mo">>, <<"read", "full_v2">> >>
    [] l = "free_hmo"  -> << <<"free", "hcore_mo">> >>
    [] l = "free3"     -> FreedAtEnd
    [] OTHER           -> << >>

\* The allocated set after one operation, and whether the operation was legal:
\* an allocation needs a tensor that is not allocated, every other operation
\* one that is.
LiveAfter(op, alive) ==
  IF op[1] = "alloc" THEN alive \cup {op[2]}
  ELSE IF op[1] = "free" THEN alive \ {op[2]}
  ELSE alive

Legal(op, alive) == IF op[1] = "alloc" THEN op[2] \notin alive ELSE op[2] \in alive

RECURSIVE LiveAfterAll(_, _)
LiveAfterAll(ops, alive) ==
  IF ops = << >> THEN alive
  ELSE LiveAfterAll(Tail(ops), LiveAfter(Head(ops), alive))

RECURSIVE IllegalOps(_, _)
IllegalOps(ops, alive) ==
  IF ops = << >> THEN {}
  ELSE (IF Legal(Head(ops), alive) THEN {} ELSE {Head(ops)})
         \cup IllegalOps(Tail(ops), LiveAfter(Head(ops), alive))

\* Rank p performs the tensor operations of statement l.
Track(p, l) ==
  LET ops == StmtOps(l)
  IN  /\ trace' = [trace EXCEPT ![p] =
                     @ \o [i \in 1 .. Len(ops) |-> <<l, ops[i][1], ops[i][2]>>]]
      /\ live' = [live EXCEPT ![p] = LiveAfterAll(ops, @)]
      /\ misuse' = [misuse EXCEPT ![p] =
                      @ \cup {<<l, o[1], o[2]>> : o \in IllegalOps(ops, live[p])}]

\* auto [...] = hartree_fock_driver<T>(ec, filename, options_map);
HartreeFock(p) ==
  /\ pc[p] = "hf"
  /\ Track(p, "hf")
  /\ CollectiveReady("hf")
  /\ Goto(p, "decide")
  /\ Call(p, "hartree_fock_driver")
  /\ UNCHANGED <<num, created, runVars, disk, ccsd_restart, seen, cd_arg, tensors, chol_count,
                 out, dirSeen, io, exported>>

\* bool ccsd_restart = ...
Decide(p) ==
  /\ pc[p] = "decide"
  /\ Track(p, "decide")
  /\ seen' = [seen EXCEPT ![p] = <<Exists("f1file"), Exists("v2file")>>]
  /\ ccsd_restart' = [ccsd_restart EXCEPT ![p] =
                        CcsdRestart(readt, Exists("f1file"), Exists("v2file"))]
  /\ Goto(p, "cdsvd")
  /\ UNCHANGED <<num, created, runVars, disk, cd_arg, tensors, chol_count, out, dirSeen, calls,
                 io, exported>>

\* auto [cholVpr, d_f1, lcao, chol_count, max_cvecs, CI] = cd_svd_driver<T>(...,
\*   ccsd_restart, cholfile); followed by the branch of lines 102/108.
CdSvd(p) ==
  /\ pc[p] = "cdsvd"
  /\ Track(p, "cdsvd")
  /\ CollectiveReady("cdsvd")
  /\ cd_arg' = [cd_arg EXCEPT ![p] = ccsd_restart[p]]
  /\ LET r == CdSvdResult(ccsd_restart[p], input)
     IN  /\ tensors' = [tensors EXCEPT ![p].cholVpr = r.cholVpr,
                                       ![p].d_f1 = r.d_f1,
                                       ![p].lcao = r.lcao]
         /\ chol_count' = [chol_count EXCEPT ![p] = r.chol_count]
  /\ Goto(p, BranchTarget(ccsd_restart[p], writet))
  /\ Call(p, "cd_svd_driver")
  /\ UNCHANGED <<num, created, runVars, disk, ccsd_restart, seen, out, dirSeen, io, exported>>

\* The body of read_from_disk(tensor t, file f) on rank p, then statement l:
\* a file that is absent cannot be read, and the rank stops with an error.
Read(p, t, f, l) ==
  /\ Call(p, "read_from_disk")
  /\ IF Exists(f)
       THEN /\ tensors' = [tensors EXCEPT ![p][t] = ReadFromDisk(disk[f])]
            /\ Log(p, f, "read")
            /\ Goto(p, l)
       ELSE /\ Log(p, f, "readfail")
            /\ Goto(p, ErrorAt(pc[p]))
            /\ UNCHANGED tensors

\* read_from_disk(d_f1, f1file);
ReadF1(p) ==
  /\ pc[p] = "rd_f1"
  /\ Track(p, "rd_f1")
  /\ Read(p, "d_f1", ReadSource("d_f1"), "rd_v2")
  /\ UNCHANGED <<num, created, runVars, disk, ccsd_restart, seen, cd_arg, chol_count, out,
                 dirSeen, exported>>

\* read_from_disk(cholVpr, v2file);
ReadV2(p) ==
  /\ pc[p] = "rd_v2"
  /\ Track(p, "rd_v2")
  /\ Read(p, "cholVpr", ReadSource("cholVpr"), "bar_r")
  /\ UNCHANGED <<num, created, runVars, disk, ccsd_restart, seen, cd_arg, chol_count, out,
                 dirSeen, exported>>

\* ec.pg().barrier();  (line 105, inside the restore branch)
RestoreBarrier(p) ==
  /\ pc[p] = "bar_r"
  /\ Track(p, "bar_r")
  /\ BarrierPass("bar_r")
  /\ Goto(p, AfterRestore(writet))
  /\ Call(p, "barrier")
  /\ UNCHANGED <<num, created, runVars, disk, ccsd_restart, seen, cd_arg, tensors, chol_count,
                 out, dirSeen, io, exported>>

\* if(!fs::exists(files_dir)) ...   (line 110, the test)
CheckFilesDir(p) ==
  /\ pc[p] = "mk_chk"
  /\ Track(p, "mk_chk")
  /\ dirSeen' = [dirSeen EXCEPT ![p] = disk.files_dir]
  /\ Goto(p, "mk_do")
  /\ UNCHANGED <<num, created, runVars, disk, ccsd_restart, seen, cd_arg, tensors, chol_count,
                 out, calls, io, exported>>

\* ... fs::create_directories(files_dir);   (line 110, the call)
CreateFilesDir(p) ==
  /\ pc[p] = "mk_do"
  /\ Track(p, "mk_do")
  /\ IF dirSeen[p]
       THEN /\ Goto(p, "wr_f1")
            /\ UNCHANGED <<disk, created>>
       ELSE LET res == CreateDirectories(disk.files_dir)
            IN  /\ disk' = [disk EXCEPT !.files_dir = TRUE]
                /\ created' = [created EXCEPT ![p] = res]
                /\ Goto(p, IF res = "error" THEN ErrorAt("mk_do") ELSE "wr_f1")
  /\ dirSeen' = [dirSeen EXCEPT ![p] = FALSE]
  /\ UNCHANGED <<num, runVars, ccsd_restart, seen, cd_arg, tensors, chol_count, out,
                 calls, io, exported>>

\* write_to_disk(d_f1, f1file);
WriteF1(p) ==
  /\ pc[p] = "wr_f1"
  /\ Track(p, "wr_f1")
  /\ disk' = [disk EXCEPT ![WriteTarget("d_f1")] = WriteToDisk(tensors[p].d_f1, run)]
  /\ Log(p, WriteTarget("d_f1"), "write")
  /\ Goto(p, "wr_v2")
  /\ Call(p, "write_to_disk")
  /\ created' = [created EXCEPT ![p] = "none"]
  /\ UNCHANGED <<num, runVars, ccsd_restart, seen, cd_arg, tensors, chol_count, out,
                 dirSeen, exported>>

\* write_to_disk(cholVpr, v2file); followed by the test of line 115.
WriteV2(p) ==
  /\ pc[p] = "wr_v2"
  /\ Track(p, "wr_v2")
  /\ disk' = [disk EXCEPT ![WriteTarget("cholVpr")] =
                            WriteToDisk(tensors[p].cholVpr, run)]
  /\ Log(p, WriteTarget("cholVpr"), "write")
  /\ Goto(p, AfterWrites(p))
  /\ Call(p, "write_to_disk")
  /\ UNCHANGED <<num, created, runVars, ccsd_restart, seen, cd_arg, tensors, chol_count, out,
                 dirSeen, exported>>

\* std::ofstream out(cholfile, std::ios::out);  The open succeeds and leaves an
\* empty file, or fails and leaves the disk as it was.
OpenCountFile(p) ==
  /\ pc[p] = "open"
  /\ Track(p, "open")
  /\ \/ /\ disk' = [disk EXCEPT !.cholfile =
                      [data |-> <<"empty", 0>>, by |-> run, lines |-> 0]]
        /\ out' = [out EXCEPT ![p] = "good"]
        /\ Log(p, "cholfile", "open")
     \/ /\ out' = [out EXCEPT ![p] = "fail"]
        /\ Log(p, "cholfile", "openfail")
        /\ UNCHANGED disk
  /\ Goto(p, "count")
  /\ UNCHANGED <<num, created, runVars, ccsd_restart, seen, cd_arg, tensors, chol_count,
                 dirSeen, calls, exported>>

\* if(!out) cerr << "Error opening file " ...; out << chol_count << std::endl;
\* out.close();   A failed stream prints the message and writes nothing.
WriteCount(p) ==
  /\ pc[p] = "count"
  /\ Track(p, "count")
  /\ IF out[p] = "good"
       THEN /\ disk' = [disk EXCEPT !.cholfile =
                          [data |-> chol_count[p], by |-> run, lines |-> 1]]
            /\ Log(p, "cholfile", "write")
       ELSE /\ Log(p, "cerr", "diag")
            /\ UNCHANGED disk
  /\ out' = [out EXCEPT ![p] = "closed"]
  /\ Goto(p, "bar")
  /\ UNCHANGED <<num, created, runVars, ccsd_restart, seen, cd_arg, tensors, chol_count,
                 dirSeen, calls, exported>>

\* ec.pg().barrier();  (line 123, after the branches)
Barrier(p) ==
  /\ pc[p] = "bar"
  /\ Track(p, "bar")
  /\ BarrierPass("bar")
  /\ Goto(p, "alloc_v2")
  /\ Call(p, "barrier")
  /\ UNCHANGED <<num, created, runVars, disk, ccsd_restart, seen, cd_arg, tensors, chol_count,
                 out, dirSeen, io, exported>>

\* Tensor<T> full_v2{N, N, N, N}; Tensor<T>::allocate(&ec, full_v2);
AllocFullV2(p) ==
  /\ pc[p] = "alloc_v2"
  /\ Track(p, "alloc_v2")
  /\ CollectiveReady("alloc_v2")
  /\ tensors' = [tensors EXCEPT ![p].full_v2 = Unset]
  /\ Goto(p, "exec_v2")
  /\ Call(p, "allocate")
  /\ UNCHANGED <<num, created, runVars, disk, ccsd_restart, seen, cd_arg, chol_count, out,
                 dirSeen, io, exported>>

\* sch(full_v2(p, r, q, s) = cholVpr(p, r, cindex) * cholVpr(q, s, cindex)).execute(ex_hw);
ExecFullV2(p) ==
  /\ pc[p] = "exec_v2"
  /\ Track(p, "exec_v2")
  /\ CollectiveReady("exec_v2")
  /\ tensors' = [tensors EXCEPT ![p].full_v2 = Reconstruct(tensors[p].cholVpr)]
  /\ Goto(p, "free_chol")
  /\ Call(p, "execute")
  /\ UNCHANGED <<num, created, runVars, disk, ccsd_restart, seen, cd_arg, chol_count, out,
                 dirSeen, io, exported>>

\* free_tensors(cholVpr);
FreeCholVpr(p) ==
  /\ pc[p] = "free_chol"
  /\ Track(p, "free_chol")
  /\ CollectiveReady("free_chol")
  /\ tensors' = [tensors EXCEPT ![p].cholVpr = NoData]
  /\ Goto(p, "alloc_h")
  /\ Call(p, "deallocate")
  /\ UNCHANGED <<num, created, runVars, disk, ccsd_restart, seen, cd_arg, chol_count, out,
                 dirSeen, io, exported>>

-----------------------------------------------------------------------------
\* The statements of generate_fcidump, called at line 138

\* Tensor<T> hcore{AO, AO}; Tensor<T> hcore_mo{{MSO, MSO}, {1, 1}};
\* Tensor<T>::allocate(&ec, hcore, hcore_mo);
AllocHcore(p) ==
  /\ pc[p] = "alloc_h"
  /\ Track(p, "alloc_h")
  /\ CollectiveReady("alloc_h")
  /\ tensors' = [tensors EXCEPT ![p].hcore = Unset, ![p].hcore_mo = Unset]
  /\ Goto(p, "mkf_chk")
  /\ Call(p, "allocate")
  /\ UNCHANGED <<num, created, runVars, disk, ccsd_restart, seen, cd_arg, chol_count, out,
                 dirSeen, io, exported>>

\* if(!fs::exists(files_dir)) ...   (line 41, the test; files_dir is .../fci)
CheckFciDir(p) ==
  /\ pc[p] = "mkf_chk"
  /\ Track(p, "mkf_chk")
  /\ dirSeen' = [dirSeen EXCEPT ![p] = disk.fci_dir]
  /\ Goto(p, "mkf_do")
  /\ UNCHANGED <<num, created, runVars, disk, ccsd_restart, seen, cd_arg, tensors, chol_count,
                 out, calls, io, exported>>

\* ... fs::create_directories(files_dir);   (line 41, the call: it creates the
\* missing parents too)
CreateFciDir(p) ==
  /\ pc[p] = "mkf_do"
  /\ Track(p, "mkf_do")
  /\ IF dirSeen[p]
       THEN /\ Goto(p, "rd_hcore")
            /\ UNCHANGED <<disk, created>>
       ELSE LET res == CreateDirectories(disk.fci_dir)
            IN  /\ disk' = [disk EXCEPT !.fci_dir = TRUE, !.files_dir = TRUE]
                /\ created' = [created EXCEPT ![p] = res]
                /\ Goto(p, IF res = "error" THEN ErrorAt("mkf_do") ELSE "rd_hcore")
  /\ dirSeen' = [dirSeen EXCEPT ![p] = FALSE]
  /\ UNCHANGED <<num, runVars, ccsd_restart, seen, cd_arg, tensors, chol_count, out,
                 calls, io, exported>>

\* read_from_disk(hcore, hcorefile);
ReadHcore(p) ==
  /\ pc[p] = "rd_hcore"
  /\ Track(p, "rd_hcore")
  /\ Read(p, "hcore", "hcorefile", "sch")
  /\ created' = [created EXCEPT ![p] = "none"]
  /\ UNCHANGED <<num, runVars, disk, ccsd_restart, seen, cd_arg, chol_count, out,
                 dirSeen, exported>>

\* sch.allocate(tmp)(tmp(z1,nu) = lcao(mu,z1) * hcore(mu,nu))
\*    (hcore_mo(z1,z2) = tmp(z1,nu) * lcao(nu,z2)).deallocate(tmp,hcore).execute();
RotateHcore(p) ==
  /\ pc[p] = "sch"
  /\ Track(p, "sch")
  /\ CollectiveReady("sch")
  /\ LET t == tensors[p]
         tmp == RotateLeft(t.lcao, t.hcore)
     IN  tensors' = [tensors EXCEPT ![p].hcore_mo = RotateRight(tmp, t.lcao),
                                    ![p].tmp = NoData,
                                    ![p].hcore = NoData]
  /\ Goto(p, "export")
  /\ Call(p, "execute")
  /\ UNCHANGED <<num, created, runVars, disk, ccsd_restart, seen, cd_arg, chol_count, out,
                 dirSeen, io, exported>>

\* fcidump::write_fcidump_file(sys_data, hcore_mo, full_v2, symvec, fcid_file);
Export(p) ==
  /\ pc[p] = "export"
  /\ Track(p, "export")
  /\ exported' = [exported EXCEPT ![p] = <<tensors[p].hcore_mo, tensors[p].full_v2>>]
  /\ Log(p, "fcidump", "write")
  /\ Goto(p, "free_hmo")
  /\ UNCHANGED <<num, created, runVars, disk, ccsd_restart, seen, cd_arg, tensors, chol_count,
                 out, dirSeen, calls>>

\* free_tensors(hcore_mo); return files_prefix;
FreeHcoreMo(p) ==
  /\ pc[p] = "free_hmo"
  /\ Track(p, "free_hmo")
  /\ CollectiveReady("free_hmo")
  /\ tensors' = [tensors EXCEPT ![p].hcore_mo = NoData]
  /\ Goto(p, "free3")
  /\ Call(p, "deallocate")
  /\ UNCHANGED <<num, created, runVars, disk, ccsd_restart, seen, cd_arg, chol_count, out,
                 dirSeen, io, exported>>

-----------------------------------------------------------------------------
\* The end of fci_driver

\* free_tensors(lcao, d_f1, full_v2);
FreeRest(p) ==
  /\ pc[p] = "free3"
  /\ Track(p, "free3")
  /\ CollectiveReady("free3")
  /\ tensors' = [tensors EXCEPT ![p].lcao = NoData, ![p].d_f1 = NoData,
                                ![p].full_v2 = NoData]
  /\ Goto(p, "flush")
  /\ Call(p, "deallocate")
  /\ UNCHANGED <<num, created, runVars, disk, ccsd_restart, seen, cd_arg, chol_count, out,
                 dirSeen, io, exported>>

\* ec.flush_and_sync();
FlushAndSync(p) ==
  /\ pc[p] = "flush"
  /\ Track(p, "flush")
  /\ CollectiveReady("flush")
  /\ Goto(p, "done")
  /\ Call(p, "flush_and_sync")
  /\ UNCHANGED <<num, created, runVars, disk, ccsd_restart, seen, cd_arg, tensors, chol_count,
                 out, dirSeen, io, exported>>

\* The branch the current run took, read off its file accesses.
RunBranch ==
  IF \E e \in io : e[2] \in CheckpointFiles /\ e[3] \in {"write", "open", "openfail"}
    THEN "persist"
  ELSE IF \E e \in io : e[2] \in CheckpointFiles /\ e[3] \in {"read", "readfail"}
    THEN "restore"
  ELSE "ephemeral"

RunOutcome == IF \A p \in Procs : pc[p] = "done" THEN "done" ELSE "error"

\* fci_driver is started again, by the same process group over the same disk,
\* with the same or a changed input and any setting of the two flags.
NewRun ==
  /\ AllTerminated
  /\ run < MaxRuns
  /\ run' = run + 1
  /\ input' \in {input, input + 1}
  /\ readt' \in BOOLEAN
  /\ writet' \in BOOLEAN
  /\ prev' = [branch |-> RunBranch, writet |-> writet, input |-> input,
              outcome |-> RunOutcome]
  /\ UNCHANGED <<nprocs, disk, num>>
  /\ pc' = FreshPc
  /\ ccsd_restart' = FreshRestart
  /\ seen' = FreshSeen
  /\ cd_arg' = FreshRestart
  /\ tensors' = FreshTensors
  /\ chol_count' = FreshCount
  /\ out' = FreshOut
  /\ dirSeen' = FreshRestart
  /\ calls' = FreshCalls
  /\ exported' = FreshExported
  /\ io' = {}
  /\ trace' = FreshTrace
  /\ live' = FreshLive
  /\ misuse' = FreshLive
  /\ created' = FreshCreated

Next ==
  \/ \E p \in Procs : HartreeFock(p)
  \/ \E p \in Procs : Decide(p)
  \/ \E p \in Procs : CdSvd(p)
  \/ \E p \in Procs : ReadF1(p)
  \/ \E p \in Procs : ReadV2(p)
  \/ \E p \in Procs : RestoreBarrier(p)
  \/ \E p \in Procs : CheckFilesDir(p)
  \/ \E p \in Procs : CreateFilesDir(p)
  \/ \E p \in Procs : WriteF1(p)
  \/ \E p \in Procs : WriteV2(p)
  \/ \E p \in Procs : OpenCountFile(p)
  \/ \E p \in Procs : WriteCount(p)
  \/ \E p \in Procs : Barrier(p)
  \/ \E p \in Procs : AllocFullV2(p)
  \/ \E p \in Procs : ExecFullV2(p)
  \/ \E p \in Procs : FreeCholVpr(p)
  \/ \E p \in Procs : AllocHcore(p)
  \/ \E p \in Procs : CheckFciDir(p)
  \/ \E p \in Procs : CreateFciDir(p)
  \/ \E p \in Procs : ReadHcore(p)
  \/ \E p \in Procs : RotateHcore(p)
  \/ \E p \in Procs : Export(p)
  \/ \E p \in Procs : FreeHcoreMo(p)
  \/ \E p \in Procs : FreeRest(p)
  \/ \E p \in Procs : FlushAndSync(p)
  \/ NewRun

Spec == Init /\ [][Next]_vars

-----------------------------------------------------------------------------
\* The numeric content of the contractions and of the symmetry-label vector.
\* A tensor is a function from index tuples to integers.

MOs == 1 .. NOrb
AOs == 1 .. NAO
Aux == 1 .. NAux

\* The index space each label ranges over: p, q, r, s, z1, z2 are labels of
\* MO / MSO, mu and nu of AO, cindex of CI.
Extent(label) ==
  IF label \in {"mu", "nu"} THEN AOs
  ELSE IF label = "cindex" THEN Aux
  ELSE MOs

LabelsOf(labs) == {labs[i] : i \in 1 .. Len(labs)}

\* The index tuples of a tensor with the given labels.
Indices(labs) ==
  {t \in [1 .. Len(labs) -> MOs \cup AOs \cup Aux] :
     \A i \in 1 .. Len(labs) : t[i] \in Extent(labs[i])}

RECURSIVE SumOver(_, _)
SumOver(f, D) ==
  IF D = {} THEN 0
  ELSE LET x == CHOOSE y \in D : TRUE IN f[x] + SumOver(f, D \ {x})

\* The labelled contraction  out(outL) = A(aL) * B(bL):  every label that occurs
\* in an operand and not in the output is summed over.
Contract(outL, aL, bL, A, B) ==
  LET summed == (LabelsOf(aL) \cup LabelsOf(bL)) \ LabelsOf(outL)
      Envs == {e \in [summed -> MOs \cup AOs \cup Aux] :
                 \A l \in summed : e[l] \in Extent(l)}
      OutEnv(idx) == [l \in LabelsOf(outL) |->
                        idx[CHOOSE i \in 1 .. Len(outL) : outL[i] = l]]
      Pick(e, labs) == [i \in 1 .. Len(labs) |-> e[labs[i]]]
      Term(e) == A[Pick(e, aL)] * B[Pick(e, bL)]
  IN  [idx \in Indices(outL) |->
         SumOver([e \in Envs |-> Term(OutEnv(idx) @@ e)], Envs)]

\* Variant: the first operand is read with its orbital labels exchanged.
V2LhsSwapped == <<"r", "p", "cindex">>

\* Variant: the output is labelled in the order the operands list the labels.
V2OutNatural == <<"p", "q", "r", "s">>

\* full_v2(p, r, q, s) = cholVpr(p, r, cindex) * cholVpr(q, s, cindex)
V2Out == <<"p", "r", "q", "s">>
V2Lhs == <<"p", "r", "cindex">>
V2Rhs == <<"q", "s", "cindex">>

\* Variant: hcore is read transposed.
TmpRhsTransposed == <<"nu", "mu">>

\* tmp(z1, nu) = lcao(mu, z1) * hcore(mu, nu)
TmpOut == <<"z1", "nu">>
TmpLhs == <<"mu", "z1">>
TmpRhs == <<"mu", "nu">>

\* hcore_mo(z1, z2) = tmp(z1, nu) * lcao(nu, z2)
HmoOut == <<"z1", "z2">>
HmoLhs == <<"z1", "nu">>
HmoRhs == <<"nu", "z2">>

\* std::vector<int> symvec(n): n value-initialised entries.
NewVector(n) == [i \in 1 .. n |-> 0]

\* Variant: a resize that leaves the vector as it is.
ResizeKeepsLength(v, n) == v

\* symvec.resize(n): the old entries are kept, new ones are value-initialised.
Resize(v, n) == [i \in 1 .. n |-> IF i <= Len(v) THEN v[i] ELSE 0]

\* std::fill(symvec.begin(), symvec.end(), 1)
NeutralSymmetry == 1
Fill(v, x) == [i \in 1 .. Len(v) |-> x]

\* The tensors over an index set that have at most two non-zero entries.
Sparse(Idx) ==
  {[i \in Idx |-> IF i = a THEN v ELSE IF i = b THEN w ELSE 0] :
     a \in Idx, b \in Idx, v \in 0 .. MaxVal, w \in 0 .. MaxVal}

driverVars == <<nprocs, run, input, readt, writet, prev, disk, pc, ccsd_restart, seen,
                cd_arg, tensors, chol_count, out, dirSeen, calls, io, exported,
                trace, live, misuse, created>>

\* One rank stands before the reconstruction (line 133), before the scheduler
\* submission of generate_fcidump (line 48) or before line 54, with any
\* contents of the operand tensors and any orbital count.
NumInit ==
  /\ nprocs = 1
  /\ run = 1
  /\ input = 1
  /\ readt = FALSE
  /\ writet = FALSE
  /\ prev = NoPrev
  /\ disk = [ f1file |-> Absent, v2file |-> Absent, cholfile |-> Absent,
              hcorefile |-> [data |-> <<"hcore", 0>>, by |-> 0, lines |-> 0],
              files_dir |-> FALSE, fci_dir |-> FALSE ]
  /\ pc = FreshPc
  /\ ccsd_restart = FreshRestart
  /\ seen = FreshSeen
  /\ cd_arg = FreshRestart
  /\ tensors = FreshTensors
  /\ chol_count = FreshCount
  /\ out = FreshOut
  /\ dirSeen = FreshRestart
  /\ calls = FreshCalls
  /\ exported = FreshExported
  /\ io = {}
  /\ trace = FreshTrace
  /\ live = FreshLive
  /\ misuse = FreshLive
  /\ created = FreshCreated
  /\ \/ \E c \in Sparse(Indices(V2Lhs)) :
          num = [NumIdle EXCEPT !.stmt = "exec_v2", !.cholVpr = c]
     \/ \E l \in Sparse(Indices(TmpLhs)), h \in Sparse(Indices(TmpRhs)) :
          num = [NumIdle EXCEPT !.stmt = "sch", !.lcao = l, !.hcore = h]
     \/ \E n \in 0 .. MaxNbf, u \in BOOLEAN :
          num = [NumIdle EXCEPT !.stmt = "symvec", !.nbf_orig = n,
                                !.is_unrestricted = u]

\* sch(full_v2(p, r, q, s) = cholVpr(p, r, cindex) * cholVpr(q, s, cindex)).execute(ex_hw);
NumReconstruct ==
  /\ num.stmt = "exec_v2"
  /\ num' = [num EXCEPT !.stmt = "free_chol",
                        !.full_v2 = Contract(V2Out, V2Lhs, V2Rhs, num.cholVpr, num.cholVpr)]
  /\ UNCHANGED driverVars

\* (tmp(z1, nu) = lcao(mu, z1) * hcore(mu, nu))
NumRotateLeft ==
  /\ num.stmt = "sch"
  /\ num' = [num EXCEPT !.stmt = "sch2",
                        !.tmp = Contract(TmpOut, TmpLhs, TmpRhs, num.lcao, num.hcore)]
  /\ UNCHANGED driverVars

\* (hcore_mo(z1, z2) = tmp(z1, nu) * lcao(nu, z2))
NumRotateRight ==
  /\ num.stmt = "sch2"
  /\ num' = [num EXCEPT !.stmt = "export",
                        !.hcore_mo = Contract(HmoOut, HmoLhs, HmoRhs, num.tmp, num.lcao)]
  /\ UNCHANGED driverVars

\* std::vector<int> symvec(sys_data.nbf_orig);
NumSymvec ==
  /\ num.stmt = "symvec"
  /\ num' = [num EXCEPT !.stmt = "resize", !.symvec = NewVector(num.nbf_orig)]
  /\ UNCHANGED driverVars

\* if(sys_data.is_unrestricted) symvec.resize(2 * sys_data.nbf_orig);
NumResize ==
  /\ num.stmt = "resize"
  /\ num' = [num EXCEPT !.stmt = "fill",
                        !.symvec = IF num.is_unrestricted
                                     THEN Resize(@, 2 * num.nbf_orig)
                                     ELSE @]
  /\ UNCHANGED driverVars

\* std::fill(symvec.begin(), symvec.end(), 1);  symvec is then passed to
\* write_fcidump_file.
NumFill ==
  /\ num.stmt = "fill"
  /\ num' = [num EXCEPT !.stmt = "write_fcidump", !.symvec = Fill(@, NeutralSymmetry)]
  /\ UNCHANGED driverVars

NumNext ==
  \/ NumReconstruct
  \/ NumRotateLeft
  \/ NumRotateRight
  \/ NumSymvec
  \/ NumResize
  \/ NumFill

NumSpec == NumInit /\ [][NumNext]_vars

-----------------------------------------------------------------------------
\* Vocabulary of the properties

Did(p, f, op) == <<p, f, op>> \in io

\* Rank p entered the restore branch: it called read_from_disk(d_f1, f1file).
TookRestore(p) == Did(p, "f1file", "read") \/ Did(p, "f1file", "readfail")

\* Rank p completed both reads of the restore branch.
Restored(p) == Did(p, "f1file", "read") /\ Did(p, "v2file", "read")

\* Rank p read or tried to read a checkpoint file.
ReadCheckpoint(p) ==
  \E f \in CheckpointFiles : Did(p, f, "read") \/ Did(p, f, "readfail")

\* Rank p wrote or opened a checkpoint file.
WroteCheckpoint(p) ==
  \E f \in CheckpointFiles : Did(p, f, "write") \/ Did(p, f, "open") \/ Did(p, f, "openfail")

\* Rank p has left the branches of lines 102-121 (it is at line 123 or later).
LeftBranches(p) == Pos(pc[p]) >= Pos("bar")

\* Rank p has left the barrier of line 123.
PastBarrier(p) == Pos(pc[p]) >= Pos("alloc_v2")

\* Rank p has decided (line 93) and called cd_svd_driver.
CalledCdSvd(p) == pc[p] \notin {"hf", "decide", "cdsvd"}

IsPrefix(s, t) == Len(s) <= Len(t) /\ SubSeq(t, 1, Len(s)) = s

-----------------------------------------------------------------------------
\* C1: the restore branch is taken by a rank if and only if the restart flag
\* is set or both f1file and v2file existed when the rank evaluated line 93;
\* the rank decides once, before cd_svd_driver, hands cd_svd_driver that same
\* value, and every rank of the run arrives at the same value.
C1_RestoreIffFlagOrBothFiles ==
  \A p \in Procs :
    LET want == readt \/ (seen[p][1] /\ seen[p][2])
    IN  /\ TookRestore(p) => (want /\ CalledCdSvd(p))
        /\ (CalledCdSvd(p) /\ pc[p] # "rd_f1" /\ want) => TookRestore(p)
        /\ CalledCdSvd(p) => (cd_arg[p] = want)
        /\ \A q \in Procs :
             (pc[p] \notin {"hf", "decide"} /\ pc[q] \notin {"hf", "decide"})
               => (ccsd_restart[p] = ccsd_restart[q])

\* C1 witness: a rank restored with the restart flag off, because both files
\* were there, after handing cd_svd_driver the value true.
C1_Witness ==
  \E p \in Procs :
    /\ ~readt
    /\ seen[p] = <<TRUE, TRUE>>
    /\ Restored(p)
    /\ cd_arg[p]

\* C2: a rank writes checkpoint files (the two tensors, and the count file on
\* the writer rank) if and only if the write flag is set and the rank did not
\* take the restore branch; no rank both reads and writes checkpoint files in
\* one run.
C2_PersistIffWriteAndNotRestore ==
  \A p \in Procs :
    /\ WroteCheckpoint(p) => (writet /\ ~ccsd_restart[p] /\ ~TookRestore(p))
    /\ (LeftBranches(p) /\ writet /\ ~TookRestore(p))
         => /\ Did(p, "f1file", "write")
            /\ Did(p, "v2file", "write")
            /\ (p = 0 => (Did(p, "cholfile", "open") \/ Did(p, "cholfile", "openfail")))
    /\ ~(ReadCheckpoint(p) /\ WroteCheckpoint(p))

\* C2 witness: a run with both flags set in which every rank left the
\* branches after restoring, and wrote nothing.
C2_Witness ==
  /\ readt /\ writet
  /\ \A p \in Procs : LeftBranches(p) /\ Restored(p) /\ ~WroteCheckpoint(p)

C4_CountFileOnlyRankZero ==
  /\ \A e \in io : e[2] = "cholfile" => e[1] = 0
  /\ (\A p \in Procs : LeftBranches(p) /\ WroteCheckpoint(p))
       => /\ Did(0, "cholfile", "open") \/ Did(0, "cholfile", "openfail")
          /\ Did(0, "cholfile", "open")
               => /\ Did(0, "cholfile", "write")
                  /\ disk.cholfile = [data |-> <<"count", input>>, by |-> run,
                                      lines |-> 1]

\* C4 witness: a group of more than one rank left the persist branch with the
\* count file written.
C4_Witness ==
  /\ nprocs > 1
  /\ \A p \in Procs : LeftBranches(p) /\ WroteCheckpoint(p)
  /\ Did(0, "cholfile", "write")

\* C5: in a restoring run no rank is past the restore branch (at the barrier
\* of line 123, the allocation of full_v2, the contraction or later) before
\* every rank has completed both reads.
C5_BarrierAfterRestore ==
  \A p \in Procs :
    (TookRestore(p) /\ LeftBranches(p)) => \A q \in Procs : Restored(q)

\* C5 witness: in a group of more than one rank, a restoring rank is about to
\* execute the reconstruction.
C5_Witness ==
  /\ nprocs > 1
  /\ \E p \in Procs : TookRestore(p) /\ pc[p] = "exec_v2"

\* C6: a run with the restart flag set that finds f1file or v2file absent
\* ends in the read error on every rank: cd_svd_driver is told to restart, so
\* nothing is recomputed, no rank gets past the reads of the restore branch,
\* and nothing is exported.
C6_RestoreWithoutFilesIsError ==
  (readt /\ ~(Exists("f1file") /\ Exists("v2file")))
    => \A p \in Procs :
         /\ CalledCdSvd(p) => cd_arg[p]
         /\ tensors[p].cholVpr \in {NoData, Unset}
         /\ ~LeftBranches(p)
         /\ exported[p] = NoExport
         /\ Terminated(p) => Failed(p)

\* C6 witness: with the restart flag set, f1file present and v2file absent,
\* every rank of a group of more than one has stopped with the error.
C6_Witness ==
  /\ readt
  /\ nprocs > 1
  /\ Exists("f1file") /\ ~Exists("v2file")
  /\ \A p \in Procs : Failed(p) /\ Did(p, "v2file", "readfail")

\* C7 as stated: when rank 0 fails to open the count file the group aborts;
\* no rank goes on to the export or to the end of the run.
C7_OpenFailureAborts ==
  Did(0, "cholfile", "openfail")
    => \A p \in Procs : exported[p] = NoExport /\ pc[p] # "done"

\* The ranks invoked the same collective operations in the same order, as far
\* as each has come.
CallsAgree ==
  \A p, q \in Procs : IsPrefix(calls[p], calls[q]) \/ IsPrefix(calls[q], calls[p])

C9_RestoreOnlyOnCompleteCheckpoint ==
  \A p \in Procs :
    (Restored(p) /\ disk.f1file.by >= 1 /\ disk.v2file.by >= 1)
      => /\ Exists("cholfile")
         /\ disk.cholfile.lines = 1
         /\ disk.f1file.by = disk.v2file.by
         /\ disk.cholfile.by = disk.v2file.by

\* C10 as stated: a finished run with the write flag set, followed by a run
\* on the same input that restores, exports the tensors of a run without
\* checkpoint I/O.
C10_WriteFlagThenRestoreEquivalent ==
  \A p \in Procs :
    ( /\ prev.writet /\ prev.outcome = "done" /\ prev.input = input
      /\ Restored(p) /\ exported[p] # NoExport )
      => exported[p] = EphemeralExport(input, disk.hcorefile.data)

\* C10 amended: a run that took the persist branch, followed by a run on the
\* same input that restores and reaches the export, hands write_fcidump_file
\* the tensors of a run without checkpoint I/O.
C10_PersistThenRestoreEquivalent ==
  \A p \in Procs :
    ( /\ prev.branch = "persist" /\ prev.outcome = "done" /\ prev.input = input
      /\ Restored(p) /\ exported[p] # NoExport )
      => exported[p] = EphemeralExport(input, disk.hcorefile.data)

\* C10 witness: after a persisting run, a group of more than one rank has
\* restored on the same input and exported.
C10_Witness ==
  /\ nprocs > 1
  /\ prev.branch = "persist" /\ prev.input = input
  /\ \A p \in Procs : Restored(p) /\ exported[p] # NoExport

-----------------------------------------------------------------------------
\* Tensor lifetimes

\* The number of operations op on tensor t in the trace of rank p.
Count(p, op, t) ==
  Cardinality({i \in DOMAIN trace[p] : trace[p][i][2] = op /\ trace[p][i][3] = t})

\* The positions in the trace of rank p of the operations op on tensor t.
At(p, op, t) == {i \in DOMAIN trace[p] : trace[p][i][2] = op /\ trace[p][i][3] = t}

\* flush_and_sync is the next statement of rank p, or it has returned.
ReachedFlush(p) == pc[p] \in {"flush", "done"}

\* C11: in every run, when a rank reaches flush_and_sync each of the seven
\* tensors (hcore, hcore_mo, tmp, full_v2 allocated by the driver; cholVpr,
\* d_f1, lcao handed to it allocated) has been allocated once and deallocated
\* exactly once: none is still allocated, none was deallocated twice.
C11_AllocationsPaired ==
  \A p \in Procs :
    ReachedFlush(p) =>
      /\ live[p] = {}
      /\ \A t \in TensorNames : Count(p, "alloc", t) = 1 /\ Count(p, "free", t) = 1

\* A restore run that follows a completed persist run has reached the end.
C11_Witness ==
  /\ run = 2
  /\ prev.branch = "persist"
  /\ prev.outcome = "done"
  /\ RunBranch = "restore"
  /\ \A p \in Procs : pc[p] = "done" /\ Count(p, "free", "full_v2") = 1

\* Rank p has just executed the scheduler submission of generate_fcidump (lines
\* 48-51), or the export that follows it.
Submitted(p) == pc[p] \in {"export", "free_hmo"}

\* Every operation op on tensor t in the trace of rank p belongs to statement l,
\* and there is exactly one.
OnceIn(p, l, op, t) ==
  /\ Cardinality(At(p, op, t)) = 1
  /\ \A i \in At(p, op, t) : trace[p][i][1] = l

\* Every operation op1 on t1 precedes every operation op2 on t2 in the trace of p.
Before(p, op1, t1, op2, t2) ==
  \A i \in At(p, op1, t1), j \in At(p, op2, t2) : i < j

\* C16: tmp and hcore are deallocated within the scheduler submission that uses
\* them, after both contractions (tmp written, then tmp read to produce
\* hcore_mo) and before the export reads hcore_mo; tmp is allocated inside the
\* same submission.
C16_ScratchFreedInSubmission ==
  \A p \in Procs :
    Submitted(p) =>
      /\ OnceIn(p, "sch", "alloc", "tmp")
      /\ OnceIn(p, "sch", "write", "tmp")
      /\ OnceIn(p, "sch", "read", "tmp")
      /\ OnceIn(p, "sch", "write", "hcore_mo")
      /\ OnceIn(p, "sch", "free", "tmp")
      /\ OnceIn(p, "sch", "free", "hcore")
      /\ Before(p, "alloc", "tmp", "write", "tmp")
      /\ Before(p, "write", "tmp", "read", "tmp")
      /\ Before(p, "read", "tmp", "write", "hcore_mo")
      /\ Before(p, "read", "hcore", "write", "hcore_mo")
      /\ Before(p, "write", "hcore_mo", "free", "tmp")
      /\ Before(p, "write", "hcore_mo", "free", "hcore")
      /\ Before(p, "free", "tmp", "read", "hcore_mo")
      /\ Before(p, "free", "hcore", "read", "hcore_mo")
      /\ {"tmp", "hcore"} \cap live[p] = {}

\* A rank has written the export after the submission.
C16_Witness ==
  \E p \in Procs :
    /\ pc[p] = "free_hmo"
    /\ Count(p, "read", "hcore_mo") = 1
    /\ Count(p, "free", "tmp") = 1
    /\ exported[p] # NoExport

\* The files kept under the checkpoint directory and beside it.
DiskFiles == {"f1file", "v2file", "cholfile", "hcorefile"}

\* Rank p takes the step fs::create_directories of line 110 or of line 41
\* (skipped when the test before it found the directory).
CreateStep(p) == pc[p] \in {"mk_do", "mkf_do"} /\ pc'[p] # pc[p]

\* C17: the exists-check-then-create step is idempotent, also when the ranks
\* perform it concurrently: taken when the directory exists already, or was
\* created by another rank between the check and the create, it does not fail,
\* leaves every file as it was and leaves every existing directory in place.
C17_DirectoryCreationIdempotent ==
  [][\A p \in Procs :
       CreateStep(p) =>
         /\ pc'[p] \notin ErrorLabels
         /\ \A f \in DiskFiles : disk'[f] = disk[f]
         /\ disk.files_dir => disk'.files_dir
         /\ disk.fci_dir => disk'.fci_dir]_vars

\* Rank p found the checkpoint directory missing, another rank created it and
\* wrote a checkpoint file into it, and rank p then called create_directories.
C17_Witness ==
  \E p \in Procs :
    /\ created[p] = "existed"
    /\ pc[p] = "wr_f1"
    /\ \E q \in Procs \ {p} : Did(q, "f1file", "write")
    /\ disk.f1file.by = run

\* The statements of generate_fcidump that operate on tensors.
GenerateFcidumpStmts == {"alloc_h", "rd_hcore", "sch", "export", "free_hmo"}

\* Rank p has just executed one of the free_tensors calls of fci_driver (line
\* 136 or line 144).
FreesDone(p) == pc[p] \in {"alloc_h", "flush"}

\* C18: no operation touches a tensor that is not allocated: every contraction,
\* disk read or write, export and free operates on tensors allocated earlier
\* and not yet deallocated.  In particular cholVpr is freed only after the
\* reconstruction has written full_v2 and is not used afterwards, and full_v2,
\* lcao and d_f1 are freed only after generate_fcidump has returned.
C18_OnlyAllocatedTensorsTouched ==
  \A p \in Procs :
    /\ misuse[p] = {}
    /\ "cholVpr" \in live[p] \/ Pos(pc[p]) <= Pos("cdsvd") \/ Pos(pc[p]) > Pos("free_chol")
    /\ {"full_v2", "lcao", "d_f1"} \subseteq live[p]
         \/ Pos(pc[p]) <= Pos("alloc_v2") \/ Pos(pc[p]) > Pos("free3")
    /\ FreesDone(p) =>
         /\ \A i \in At(p, "free", "cholVpr") :
              /\ At(p, "write", "full_v2") # {}
              /\ \A j \in DOMAIN trace[p] :
                   (j # i /\ trace[p][j][3] = "cholVpr") => j < i
         /\ \A t \in {"full_v2", "lcao", "d_f1"} :
              \A i \in At(p, "free", t) :
                /\ At(p, "free", "hcore_mo") # {}
                /\ \A j \in DOMAIN trace[p] :
                     trace[p][j][1] \in GenerateFcidumpStmts => j < i

\* A rank has run every tensor operation of the driver after a restore.
C18_Witness ==
  \E p \in Procs :
    /\ pc[p] = "flush"
    /\ Restored(p)
    /\ Count(p, "read", "full_v2") = 1
    /\ Count(p, "free", "cholVpr") = 1
    /\ Count(p, "free", "d_f1") = 1

\* Rank p executes the persist branch in the current run.
InPersist(p) == CalledCdSvd(p) /\ ~ccsd_restart[p] /\ writet

\* Rank p has returned from both tensor writes of lines 112-113.
WroteTensors(p) == Did(p, "f1file", "write") /\ Did(p, "v2file", "write")

\* Rank 0 has executed lines 116-119: the stream is closed again and, if it had
\* opened, the count file holds the one line written in this run.
CountFileDone ==
  /\ Pos(pc[0]) >= Pos("bar")
  /\ out[0] = "closed"
  /\ Did(0, "cholfile", "open") \/ Did(0, "cholfile", "openfail")
  /\ Did(0, "cholfile", "open") =>
       /\ Did(0, "cholfile", "write")
       /\ disk.cholfile.by = run
       /\ disk.cholfile.lines = 1

\* C19: in the persist branch a rank writes d_f1 before cholVpr, rank 0 touches
\* the count file only after it has returned from both tensor writes, and the
\* barrier of line 123 lets no rank go on to the reconstruction (the allocation
\* of full_v2 and the contraction) until every rank has finished its tensor
\* writes and rank 0 its count-file write.
C19_CountAfterWritesBarrierBeforeV2 ==
  /\ \A p \in Procs : Did(p, "v2file", "write") => Did(p, "f1file", "write")
  /\ \A e \in io : e[2] = "cholfile" => WroteTensors(0)
  /\ \A p \in Procs :
       (InPersist(p) /\ PastBarrier(p)) =>
         /\ \A q \in Procs : WroteTensors(q) /\ LeftBranches(q)
         /\ CountFileDone

\* In a group of more than one rank, a rank other than 0 has left the barrier of
\* a persist run in which rank 0 wrote the count file, and no rank has yet
\* allocated full_v2.
C19_Witness ==
  /\ nprocs > 1
  /\ \E p \in Procs \ {0} : InPersist(p) /\ pc[p] = "alloc_v2"
  /\ pc[0] = "bar"
  /\ Did(0, "cholfile", "write")
  /\ disk.cholfile.lines = 1

-----------------------------------------------------------------------------
\* Numeric properties

\* The sum over the auxiliary index of cholVpr[a, b, c] * cholVpr[d, e, c].
PairSum(a, b, d, e) ==
  SumOver([c \in Aux |-> num.cholVpr[<<a, b, c>>] * num.cholVpr[<<d, e, c>>]], Aux)

\* The reconstruction has executed.
Reconstructed == num.stmt = "free_chol"

\* C12: the two-electron tensor is in the index order (p, r, q, s): for every
\* index tuple over the molecular orbitals, full_v2[p, r, q, s] is the sum over
\* the auxiliary index c of cholVpr[p, r, c] * cholVpr[q, s, c].
C12_IndexOrderPRQS ==
  Reconstructed =>
    \A p \in MOs, r \in MOs, q \in MOs, s \in MOs :
      num.full_v2[<<p, r, q, s>>] = PairSum(p, r, q, s)

\* A reconstructed tensor that differs from the one in the natural order
\* (p, q, r, s), with a sum of more than one non-zero product.
C12_Witness ==
  /\ Reconstructed
  /\ \E p \in MOs, r \in MOs, q \in MOs, s \in MOs :
       num.full_v2[<<p, q, r, s>>] # PairSum(p, r, q, s)
  /\ \E p \in MOs, r \in MOs :
       Cardinality({c \in Aux : num.cholVpr[<<p, r, c>>] # 0}) > 1

\* Both contractions of the scheduler submission have executed.
Rotated == num.stmt = "export"

\* C13: the one-electron operator is LCAO^T . H . LCAO: for every z1, z2 over
\* the molecular orbitals, hcore_mo[z1, z2] produced through tmp is the double
\* sum over mu and nu of lcao[mu, z1] * hcore[mu, nu] * lcao[nu, z2].
C13_HcoreMoIsCtHC ==
  Rotated =>
    \A z1 \in MOs, z2 \in MOs :
      num.hcore_mo[<<z1, z2>>] =
        SumOver([mn \in AOs \X AOs |->
                   num.lcao[<<mn[1], z1>>] * num.hcore[<<mn[1], mn[2]>>]
                     * num.lcao[<<mn[2], z2>>]],
                AOs \X AOs)

\* A rotated operator that is not symmetric, from an hcore that is not symmetric.
C13_Witness ==
  /\ Rotated
  /\ \E z1 \in MOs, z2 \in MOs : num.hcore_mo[<<z1, z2>>] # num.hcore_mo[<<z2, z1>>]
  /\ \E mu \in AOs, nu \in AOs : num.hcore[<<mu, nu>>] # num.hcore[<<nu, mu>>]

\* symvec is complete and handed to write_fcidump_file.
SymvecPassed == num.stmt = "write_fcidump"

\* C14: the symmetry-label vector passed to write_fcidump_file has length
\* nbf_orig, doubled when the system is spin-unrestricted, and every entry is 1.
C14_SymvecLengthAndValue ==
  SymvecPassed =>
    /\ Len(num.symvec) = IF num.is_unrestricted THEN 2 * num.nbf_orig ELSE num.nbf_orig
    /\ \A i \in 1 .. Len(num.symvec) : num.symvec[i] = 1

\* An unrestricted system with two basis functions: four labels.
C14_Witness ==
  /\ SymvecPassed
  /\ num.is_unrestricted
  /\ num.nbf_orig = 2
  /\ num.symvec = <<1, 1, 1, 1>>

\* C15: the reconstructed tensor is pair-symmetric: full_v2[p, r, q, s] equals
\* full_v2[q, s, p, r] for all index tuples and all contents of cholVpr.
C15_PairSymmetric ==
  Reconstructed =>
    \A p \in MOs, r \in MOs, q \in MOs, s \in MOs :
      num.full_v2[<<p, r, q, s>>] = num.full_v2[<<q, s, p, r>>]

\* A non-zero entry between two different orbital pairs, from vectors that
\* are not symmetric in their orbital indices.
C15_Witness ==
  /\ Reconstructed
  /\ \E p \in MOs, r \in MOs, q \in MOs, s \in MOs :
       /\ <<p, r>> # <<q, s>>
       /\ num.full_v2[<<p, r, q, s>>] # 0
  /\ \E p \in MOs, r \in MOs, c \in Aux :
       num.cholVpr[<<p, r, c>>] # num.cholVpr[<<r, p, c>>]

====
